---- MODULE Spec2Model ----
(***************************************************************************)
(* A model of postgresql_watcher/watcher.py: the PostgresqlWatcher facade  *)
(* (constructor, _create_subscription_process,                             *)
(* _cleanup_connections_and_processes, update, should_reload) and the      *)
(* subscriber process _casbin_channel_subscription, together with the      *)
(* parts of the platform they act on: the multiprocessing Pipe, the        *)
(* multiprocessing Process and the PostgreSQL LISTEN/NOTIFY channel.       *)
(*                                                                         *)
(* A Pipe() is a pair of linked endpoints.  The facade's process holds a   *)
(* handle on both of them (parent_conn and child_conn, line 79); a started *)
(* worker holds its own copy of the write endpoint.  recv() on the read    *)
(* endpoint raises EOFError only when no handle on the write endpoint is   *)
(* left anywhere, so the handle the facade keeps in child_conn counts.     *)
(***************************************************************************)
EXTENDS Integers, Sequences, FiniteSets, TLC

\* ------------------------------------------------------------------ bounds
\* The facade objects of the model.
Facades == {"A", "B", "C"}

\* The facade of Spec and FairSpec that is constructed with either value of
\* start_listening; the other facades publish.
Subscriber == {"A"}

\* The facades of PairSpec: each is constructed with either value of
\* start_listening.
Listeners == {"A", "B"}

\* The facades of PairSpec that call update().
Publishers == {"A"}

\* The facade of SoloSpec: it may listen, it publishes and it is given
\* update handlers.
Solo == {"A"}

\* The handlers given to set_update_callback.
Handlers == {1, 2}

\* NOTIFY commands issued in one behaviour.
MaxUpdates == 2

\* Worker + pipe pairs one facade creates in one behaviour.
MaxProcs == 2

\* ------------------------------------------------------- program constants
\* None: a handle is the index (from 1) of a pipe or a process the facade
\* created, and 0 is the absent handle.
None == 0

\* delay: Optional[int] = 2
DEFAULT_DELAY == 2

\* self._create_subscription_process(delay=10)
RECREATE_DELAY == 10

\* ------------------------------------------------------------------- state
VARIABLES
    constructed,   \* f -> __init__ has run for the facade
    facade,        \* f -> the attributes parent_conn, child_conn,
                   \*      subscription_process, subscribed_process
    pipes,         \* f -> the Pipe() pairs the facade created, in order
    procs,         \* f -> the Process objects the facade created, in order
    dbUp,          \* the PostgreSQL server accepts connections
    seq,           \* NOTIFY commands executed so far
    consumed,      \* f -> payloads returned by recv() in should_reload
    arrived,       \* f -> payloads the server pushed to the facade's workers
    by,            \* n -> the facade whose update() issued the n-th NOTIFY
    forwarded,     \* f -> payloads the workers of f have sent on their pipes so far
    invoked,       \* f -> calls of the facade's update_callback so far
    last           \* the last facade operation: the facade, the operation, how
                   \* it ended, and whether the operation before it was the
                   \* same operation on the same facade

vars == <<constructed, facade, pipes, procs, dbUp, seq, consumed, arrived, by,
          forwarded, invoked, last>>

\* A facade together with the pipes and processes it created.
World(f) == [fac |-> facade[f], pipes |-> pipes[f], procs |-> procs[f]]

\* "casbin_role_watcher", as character codes.
POSTGRESQL_CHANNEL_NAME ==
    <<99, 97, 115, 98, 105, 110, 95, 114, 111, 108, 101, 95,
      119, 97, 116, 99, 104, 101, 114>>

\* channel_name=None, the argument left out.
Unnamed == <<>>

\* The channel an unquoted name denotes in LISTEN and NOTIFY: PostgreSQL
\* folds the letters A-Z of an unquoted identifier to lower case.
Channel(name) ==
    [k \in DOMAIN name |-> IF name[k] \in 65..90 THEN name[k] + 32 ELSE name[k]]

NoFacade == [parent_conn |-> None, child_conn |-> None,
             subscription_process |-> None, subscribed_process |-> None,
             update_callback |-> None, channel_name |-> Unnamed]

\* Pipe(): both endpoints open in the creating process, nothing buffered.
NewPipe == [buf |-> <<>>, parentOpen |-> TRUE, childOpen |-> TRUE]

\* Process(target=_casbin_channel_subscription, args=(..., delay, ...)),
\* started or not.
NewProc(start_listening, delay) ==
    [pc |-> IF start_listening THEN "Idle" ELSE "unstarted",
     delay |-> delay, conn |-> "none", autocommit |-> FALSE, exitcode |-> "unset",
     channel_name |-> POSTGRESQL_CHANNEL_NAME,
     sock |-> <<>>, notifies |-> <<>>]

\* A process that has been started and has not ended holds the write endpoint.
Running(p) == p.pc \notin {"unstarted", "Terminated"}

\* Mutant of Listening: the server queues notifications for a session that
\* has not issued LISTEN yet.
Listening_early(p) ==
    \/ p.pc = "Connecting"
    \/ p.pc \in {"Subscribed", "Waiting", "Draining"} /\ p.conn = "open"

\* The process has executed LISTEN on a connection that is still up.
Listening(p) == p.pc \in {"Subscribed", "Waiting", "Draining"} /\ p.conn = "open"

\* A process that ended: its memory and its handles are gone.
\* The end of a worker process, with the kind of its exitcode: "returned"
\* (0), "raised" (1, an exception left the target) or "signalled" (negative).
Exit(p, how) == [p EXCEPT !.pc = "Terminated", !.conn = "none", !.autocommit = FALSE,
                         !.sock = <<>>, !.notifies = <<>>, !.exitcode = how]

Dead(p) == Exit(p, "raised")

\* ------------------------------------------------------------ the facade
\* Process.terminate(): raises on a process that was never started.
TerminateRaises(p) == p.pc = "unstarted"

\* Mutant of cleanup_connections_and_processes: the endpoints are closed
\* without the tests for None, so that closing an absent endpoint raises.
cleanup_unguarded(w) ==
    LET pc == w.fac.parent_conn
        cc == w.fac.child_conn
        raises == pc = None \/ cc = None
        pipes1 == IF pc /= None
                  THEN [w.pipes EXCEPT ![pc].parentOpen = FALSE] ELSE w.pipes
        pipes2 == IF pc /= None /\ cc /= None
                  THEN [pipes1 EXCEPT ![cc].childOpen = FALSE] ELSE pipes1
    IN  [w |-> [fac |-> [w.fac EXCEPT !.parent_conn = None,
                                      !.child_conn = None],
                pipes |-> pipes2, procs |-> w.procs],
         raised |-> raises]

\* _cleanup_connections_and_processes: [w |-> the world after, raised |-> ...]
cleanup_connections_and_processes(w) ==
    LET pc == w.fac.parent_conn
        cc == w.fac.child_conn
        sp == w.fac.subscription_process
        pipes1 == IF pc /= None
                  THEN [w.pipes EXCEPT ![pc].parentOpen = FALSE] ELSE w.pipes
        pipes2 == IF cc /= None
                  THEN [pipes1 EXCEPT ![cc].childOpen = FALSE] ELSE pipes1
        raises == sp /= None /\ TerminateRaises(w.procs[sp])
        procs1 == IF sp /= None /\ ~raises
                  THEN [w.procs EXCEPT ![sp] = Exit(@, "signalled")] ELSE w.procs
    IN  [w |-> [fac |-> [w.fac EXCEPT !.parent_conn = None,
                                      !.child_conn = None,
                                      !.subscription_process =
                                          IF raises THEN sp ELSE None],
                pipes |-> pipes2, procs |-> procs1],
         raised |-> raises]

\* _create_subscription_process(start_listening, delay)
create_subscription_process(w, start_listening, delay) ==
    LET c == cleanup_connections_and_processes(w)
        n == Len(c.w.pipes) + 1
    IN  IF c.raised THEN c
        ELSE [w |-> [fac |-> [c.w.fac EXCEPT !.parent_conn = n,
                                             !.child_conn = n,
                                             !.subscribed_process = n],
                     pipes |-> Append(c.w.pipes, NewPipe),
                     procs |-> Append(c.w.procs,
                                [NewProc(start_listening, delay)
                                    EXCEPT !.channel_name = c.w.fac.channel_name])],
              raised |-> FALSE]

\* recv() on the read endpoint finds end of stream: nothing buffered and no
\* handle left on the write endpoint, neither the facade's nor a worker's.
EndOfStream(w, i) ==
    /\ w.pipes[i].buf = <<>>
    /\ ~w.pipes[i].childOpen
    /\ ~Running(w.procs[i])

\* Mutant of should_reload: a registered callback is called when a message
\* has been received.
should_reload_calls_back(w) ==
    LET i == w.fac.parent_conn IN
    IF i = None
    THEN [w |-> w, ret |-> "raise", got |-> <<>>, called |-> <<>>]
    ELSE IF w.pipes[i].buf /= <<>>
    THEN [w |-> [w EXCEPT !.pipes[i].buf = Tail(@)], ret |-> "true",
          got |-> <<Head(w.pipes[i].buf)>>,
          called |-> IF w.fac.update_callback /= None
                     THEN <<w.fac.update_callback>> ELSE <<>>]
    ELSE [w |-> w, ret |-> "false", got |-> <<>>, called |-> <<>>]

\* Mutant of should_reload: the message is looked at and left on the endpoint.
should_reload_peek(w) ==
    LET i == w.fac.parent_conn IN
    IF i = None
    THEN [w |-> w, ret |-> "raise", got |-> <<>>, called |-> <<>>]
    ELSE IF w.pipes[i].buf /= <<>>
    THEN [w |-> w, ret |-> "true", got |-> <<Head(w.pipes[i].buf)>>, called |-> <<>>]
    ELSE [w |-> w, ret |-> "false", got |-> <<>>, called |-> <<>>]

\* Mutant of should_reload: return True is outside the test of poll().
should_reload_always_true(w) ==
    LET i == w.fac.parent_conn IN
    IF i = None
    THEN [w |-> w, ret |-> "raise", got |-> <<>>, called |-> <<>>]
    ELSE IF w.pipes[i].buf /= <<>>
    THEN [w |-> [w EXCEPT !.pipes[i].buf = Tail(@)], ret |-> "true",
          got |-> <<Head(w.pipes[i].buf)>>, called |-> <<>>]
    ELSE [w |-> w, ret |-> "true", got |-> <<>>, called |-> <<>>]

\* Mutant of should_reload: the pair is recreated whenever poll() is false.
should_reload_eager(w) ==
    LET i == w.fac.parent_conn IN
    IF i = None
    THEN [w |-> w, ret |-> "raise", got |-> <<>>, called |-> <<>>]
    ELSE IF w.pipes[i].buf /= <<>>
    THEN [w |-> [w EXCEPT !.pipes[i].buf = Tail(@)], ret |-> "true",
          got |-> <<Head(w.pipes[i].buf)>>, called |-> <<>>]
    ELSE LET c == create_subscription_process(w, TRUE, RECREATE_DELAY)
         IN  [w |-> c.w, ret |-> IF c.raised THEN "raise" ELSE "false",
              got |-> <<>>, called |-> <<>>]

\* should_reload: [w |-> the world after, ret |-> "true" | "false" | "raise",
\*                 got |-> the payloads received,
\*                 called |-> the callbacks it called]
\* Mutant of should_reload: a dead worker is replaced before the pipe is read.
should_reload_dead_first(w) ==
    LET i == w.fac.parent_conn IN
    IF i = None
    THEN [w |-> w, ret |-> "raise", got |-> <<>>, called |-> <<>>]
    ELSE IF ~Running(w.procs[i])
    THEN LET c == create_subscription_process(w, TRUE, RECREATE_DELAY)
         IN  [w |-> c.w, ret |-> IF c.raised THEN "raise" ELSE "false",
              got |-> <<>>, called |-> <<>>]
    ELSE IF w.pipes[i].buf /= <<>>
    THEN [w |-> [w EXCEPT !.pipes[i].buf = Tail(@)], ret |-> "true",
          got |-> <<Head(w.pipes[i].buf)>>, called |-> <<>>]
    ELSE [w |-> w, ret |-> "false", got |-> <<>>, called |-> <<>>]

should_reload(w) ==
    LET i == w.fac.parent_conn IN
    IF i = None
    THEN [w |-> w, ret |-> "raise", got |-> <<>>, called |-> <<>>]
    ELSE IF w.pipes[i].buf /= <<>>
    THEN [w |-> [w EXCEPT !.pipes[i].buf = Tail(@)], ret |-> "true",
          got |-> <<Head(w.pipes[i].buf)>>, called |-> <<>>]
    ELSE IF EndOfStream(w, i)
    THEN LET c == create_subscription_process(w, TRUE, RECREATE_DELAY)
         IN  [w |-> c.w, ret |-> IF c.raised THEN "raise" ELSE "false",
              got |-> <<>>, called |-> <<>>]
    ELSE [w |-> w, ret |-> "false", got |-> <<>>, called |-> <<>>]

\* The server pushes a payload to every connection that has executed LISTEN.
Notify(ps, channel_name, payload) ==
    [i \in DOMAIN ps |->
        IF Listening(ps[i]) /\ Channel(ps[i].channel_name) = Channel(channel_name)
        THEN [ps[i] EXCEPT !.sock = Append(@, payload)]
        ELSE ps[i]]

Hears(ps, channel_name) ==
    \E i \in DOMAIN ps :
        Listening(ps[i]) /\ Channel(ps[i].channel_name) = Channel(channel_name)

\* ------------------------------------------- _casbin_channel_subscription
\* time.sleep(delay) returns.
sleep_done(p) == [p EXCEPT !.pc = "Connecting"]

\* connect(...), set_isolation_level(AUTOCOMMIT), cursor(), execute(LISTEN):
\* an unreachable server raises out of connect() and ends the process.
connect_listen(p, up) ==
    IF up THEN [p EXCEPT !.pc = "Subscribed", !.conn = "open", !.autocommit = TRUE]
    ELSE Dead(p)

\* while not curs.closed
loop_test(p) ==
    IF p.conn = "closed" THEN Exit(p, "returned") ELSE [p EXCEPT !.pc = "Waiting"]

\* select([conn], [], [], CASBIN_CHANNEL_SELECT_TIMEOUT) finds the socket
\* readable: a push has arrived, or the server has gone.
Readable(p) == p.sock /= <<>> \/ p.conn = "broken"

\* select(...) == ([], [], []): back to the loop test.
select_timeout(p) == [p EXCEPT !.pc = "Subscribed"]

\* conn.poll(): moves what the socket holds to conn.notifies, and raises on
\* a connection the server has dropped.
conn_poll(p) ==
    IF p.conn = "broken" THEN Dead(p)
    ELSE [p EXCEPT !.pc = "Draining", !.notifies = @ \o p.sock, !.sock = <<>>]

\* Mutant of drain_one: conn.notifies.pop() for conn.notifies.pop(0).
drain_one_last(p, pipe, sent) ==
    IF sent
    THEN [p |-> [p EXCEPT !.notifies = SubSeq(@, 1, Len(@) - 1)],
          pipe |-> [pipe EXCEPT !.buf = Append(@, p.notifies[Len(p.notifies)])]]
    ELSE [p |-> Dead(p), pipe |-> pipe]

\* Mutant of drain_one: the notification is popped and not sent.
drain_one_dropped(p, pipe, sent) ==
    [p |-> [p EXCEPT !.notifies = Tail(@)], pipe |-> pipe]

\* Mutant of drain_one: "if conn.notifies" for "while conn.notifies": one
\* notification is forwarded and the worker goes back to select().
drain_one_if(p, pipe, sent) ==
    IF sent
    THEN [p |-> [p EXCEPT !.notifies = Tail(@), !.pc = "Subscribed"],
          pipe |-> [pipe EXCEPT !.buf = Append(@, Head(p.notifies))]]
    ELSE [p |-> Dead(p), pipe |-> pipe]

\* while conn.notifies: notify = conn.notifies.pop(0);
\*                      process_conn.send(notify.payload)
\* One iteration; sent is TRUE when send() returns, FALSE when it raises.
drain_one(p, pipe, sent) ==
    IF sent
    THEN [p |-> [p EXCEPT !.notifies = Tail(@)],
          pipe |-> [pipe EXCEPT !.buf = Append(@, Head(p.notifies))]]
    ELSE [p |-> Dead(p), pipe |-> pipe]

\* conn.notifies is empty: the inner loop ends.
drain_done(p) == [p EXCEPT !.pc = "Subscribed"]

\* send() on a pipe whose read endpoint the facade has closed: with the fork
\* start method the worker still holds a copy of the read endpoint and the
\* send succeeds; with spawn and forkserver it raises BrokenPipeError.
SendOutcomes(pipe) == IF pipe.parentOpen THEN {TRUE} ELSE {TRUE, FALSE}

\* ----------------------------------------------------------------- actions
Op(f, op, ret) ==
    [f |-> f, op |-> op, ret |-> ret, rep |-> last.f = f /\ last.op = op]

Put(f, w) ==
    /\ facade' = [facade EXCEPT ![f] = w.fac]
    /\ pipes' = [pipes EXCEPT ![f] = w.pipes]
    /\ procs' = [procs EXCEPT ![f] = w.procs]

\* PostgresqlWatcher(..., start_listening=...)
\* PostgresqlWatcher(host, user, password, channel_name=..., start_listening=...)
Construct(f, channel_name, start_listening) ==
    /\ ~constructed[f]
    /\ LET w == [World(f) EXCEPT !.fac.channel_name =
                     IF channel_name /= Unnamed THEN channel_name
                     ELSE POSTGRESQL_CHANNEL_NAME]
           c == create_subscription_process(w, start_listening, DEFAULT_DELAY)
       IN  /\ Put(f, [c.w EXCEPT !.fac.update_callback = None])
           /\ last' = Op(f, "new", IF c.raised THEN "raise" ELSE "ok")
    /\ constructed' = [constructed EXCEPT ![f] = TRUE]
    /\ UNCHANGED <<dbUp, seq, consumed, arrived, by, forwarded, invoked>>

\* The constructor with no channel name given.
New(f, start_listening) == Construct(f, Unnamed, start_listening)

\* Mutant of Update: a failure to connect is swallowed.
Update_swallow(f) ==
    /\ constructed[f]
    /\ seq < MaxUpdates
    /\ IF dbUp
       THEN /\ seq' = seq + 1
            /\ by' = Append(by, f)
            /\ procs' = [g \in Facades |-> Notify(procs[g], facade[f].channel_name, seq + 1)]
            /\ arrived' = [g \in Facades |->
                              IF Hears(procs[g], facade[f].channel_name)
                              THEN Append(arrived[g], seq + 1)
                              ELSE arrived[g]]
            /\ last' = Op(f, "update", "ok")
       ELSE /\ last' = Op(f, "update", "ok")
            /\ UNCHANGED <<seq, procs, arrived, by>>
    /\ UNCHANGED <<constructed, facade, pipes, dbUp, consumed, forwarded, invoked>>

\* Mutant of Update: NOTIFY names the default channel, whatever was configured.
Update_default_channel(f) ==
    /\ constructed[f]
    /\ seq < MaxUpdates
    /\ IF dbUp
       THEN /\ seq' = seq + 1
            /\ by' = Append(by, f)
            /\ procs' = [g \in Facades |-> Notify(procs[g], POSTGRESQL_CHANNEL_NAME, seq + 1)]
            /\ arrived' = [g \in Facades |->
                              IF Hears(procs[g], POSTGRESQL_CHANNEL_NAME)
                              THEN Append(arrived[g], seq + 1)
                              ELSE arrived[g]]
            /\ last' = Op(f, "update", "ok")
       ELSE /\ last' = Op(f, "update", "raise")
            /\ UNCHANGED <<seq, procs, arrived, by, forwarded, invoked>>
    /\ UNCHANGED <<constructed, facade, pipes, dbUp, consumed, forwarded, invoked>>

\* watcher.update()
Update(f) ==
    /\ constructed[f]
    /\ seq < MaxUpdates
    /\ IF dbUp
       THEN /\ seq' = seq + 1
            /\ by' = Append(by, f)
            /\ procs' = [g \in Facades |-> Notify(procs[g], facade[f].channel_name, seq + 1)]
            /\ arrived' = [g \in Facades |->
                              IF Hears(procs[g], facade[f].channel_name)
                              THEN Append(arrived[g], seq + 1)
                              ELSE arrived[g]]
            /\ last' = Op(f, "update", "ok")
       ELSE /\ last' = Op(f, "update", "raise")
            /\ UNCHANGED <<seq, procs, arrived, by, forwarded, invoked>>
    /\ UNCHANGED <<constructed, facade, pipes, dbUp, consumed, forwarded, invoked>>

\* watcher.should_reload()
\* Mutant of ShouldReload: recv() without the poll() before it, which waits
\* for a message.
ShouldReload_recv(f) ==
    /\ constructed[f]
    /\ facade[f].parent_conn /= None => pipes[f][facade[f].parent_conn].buf /= <<>>
    /\ LET r == should_reload(World(f))
       IN  /\ Len(r.w.procs) <= MaxProcs
           /\ Put(f, r.w)
           /\ consumed' = [consumed EXCEPT ![f] = @ \o r.got]
           /\ invoked' = [invoked EXCEPT ![f] = @ + Len(r.called)]
           /\ last' = Op(f, "should_reload", r.ret)
    /\ UNCHANGED <<constructed, dbUp, seq, arrived, by, forwarded>>

ShouldReload(f) ==
    /\ constructed[f]
    /\ LET r == should_reload(World(f))
       IN  /\ Len(r.w.procs) <= MaxProcs
           /\ Put(f, r.w)
           /\ consumed' = [consumed EXCEPT ![f] = @ \o r.got]
           /\ invoked' = [invoked EXCEPT ![f] = @ + Len(r.called)]
           /\ last' = Op(f, "should_reload", r.ret)
    /\ UNCHANGED <<constructed, dbUp, seq, arrived, by, forwarded>>

\* self.update_callback = update_handler
set_update_callback(w, update_handler) ==
    [w EXCEPT !.fac.update_callback = update_handler]

\* watcher.set_update_callback(update_handler)
SetUpdateCallback(f, update_handler) ==
    /\ constructed[f]
    /\ Put(f, set_update_callback(World(f), update_handler))
    /\ last' = Op(f, "set_update_callback", "ok")
    /\ UNCHANGED <<constructed, dbUp, seq, consumed, arrived, by, forwarded, invoked>>

\* watcher._cleanup_connections_and_processes(), also run by __del__
Cleanup(f) ==
    /\ constructed[f]
    /\ LET c == cleanup_connections_and_processes(World(f))
       IN  /\ Put(f, c.w)
           /\ last' = Op(f, "cleanup", IF c.raised THEN "raise" ELSE "ok")
    /\ UNCHANGED <<constructed, dbUp, seq, consumed, arrived, by, forwarded, invoked>>

SetProc(f, i, p) == procs' = [procs EXCEPT ![f][i] = p]

WorkerSleep(f, i) ==
    /\ procs[f][i].pc = "Idle"
    /\ SetProc(f, i, sleep_done(procs[f][i]))
    /\ UNCHANGED <<constructed, facade, pipes, dbUp, seq, consumed, arrived, by, forwarded, invoked, last>>

WorkerConnect(f, i) ==
    /\ procs[f][i].pc = "Connecting"
    /\ SetProc(f, i, connect_listen(procs[f][i], dbUp))
    /\ UNCHANGED <<constructed, facade, pipes, dbUp, seq, consumed, arrived, by, forwarded, invoked, last>>

WorkerLoop(f, i) ==
    /\ procs[f][i].pc = "Subscribed"
    /\ SetProc(f, i, loop_test(procs[f][i]))
    /\ UNCHANGED <<constructed, facade, pipes, dbUp, seq, consumed, arrived, by, forwarded, invoked, last>>

WorkerTimeout(f, i) ==
    /\ procs[f][i].pc = "Waiting"
    /\ ~Readable(procs[f][i])
    /\ SetProc(f, i, select_timeout(procs[f][i]))
    /\ UNCHANGED <<constructed, facade, pipes, dbUp, seq, consumed, arrived, by, forwarded, invoked, last>>

WorkerPoll(f, i) ==
    /\ procs[f][i].pc = "Waiting"
    /\ Readable(procs[f][i])
    /\ SetProc(f, i, conn_poll(procs[f][i]))
    /\ UNCHANGED <<constructed, facade, pipes, dbUp, seq, consumed, arrived, by, forwarded, invoked, last>>

WorkerSend(f, i) ==
    /\ procs[f][i].pc = "Draining"
    /\ procs[f][i].notifies /= <<>>
    /\ \E sent \in SendOutcomes(pipes[f][i]) :
          LET d == drain_one(procs[f][i], pipes[f][i], sent)
          IN  /\ SetProc(f, i, d.p)
              /\ pipes' = [pipes EXCEPT ![f][i] = d.pipe]
              /\ forwarded' = [forwarded EXCEPT ![f] = @ + Len(d.pipe.buf) - Len(pipes[f][i].buf)]
    /\ UNCHANGED <<constructed, facade, dbUp, seq, consumed, arrived, by, invoked, last>>

WorkerDrained(f, i) ==
    /\ procs[f][i].pc = "Draining"
    /\ procs[f][i].notifies = <<>>
    /\ SetProc(f, i, drain_done(procs[f][i]))
    /\ UNCHANGED <<constructed, facade, pipes, dbUp, seq, consumed, arrived, by, forwarded, invoked, last>>

\* -------------------------------------------------------- the environment
\* The worker process is killed from outside (SIGKILL).
Kill(f, i) ==
    /\ Running(procs[f][i])
    /\ SetProc(f, i, Exit(procs[f][i], "signalled"))
    /\ UNCHANGED <<constructed, facade, pipes, dbUp, seq, consumed, arrived, by, forwarded, invoked, last>>

\* The server goes away: every connection to it is dropped, with the pushes
\* its client had not read yet.
DbDown ==
    /\ dbUp
    /\ dbUp' = FALSE
    /\ procs' = [f \in Facades |-> [i \in DOMAIN procs[f] |->
                    IF procs[f][i].conn = "open"
                    THEN [procs[f][i] EXCEPT !.conn = "broken", !.sock = <<>>]
                    ELSE procs[f][i]]]
    /\ UNCHANGED <<constructed, facade, pipes, seq, consumed, arrived, by, forwarded, invoked, last>>

\* The server is back.
DbUp ==
    /\ ~dbUp
    /\ dbUp' = TRUE
    /\ UNCHANGED <<constructed, facade, pipes, procs, seq, consumed, arrived, by, forwarded, invoked, last>>

Worker(f, i) ==
    \/ WorkerSleep(f, i)
    \/ WorkerConnect(f, i)
    \/ WorkerLoop(f, i)
    \/ WorkerTimeout(f, i)
    \/ WorkerPoll(f, i)
    \/ WorkerSend(f, i)
    \/ WorkerDrained(f, i)

Init ==
    /\ constructed = [f \in Facades |-> FALSE]
    /\ facade = [f \in Facades |-> NoFacade]
    /\ pipes = [f \in Facades |-> <<>>]
    /\ procs = [f \in Facades |-> <<>>]
    /\ dbUp = TRUE
    /\ seq = 0
    /\ consumed = [f \in Facades |-> <<>>]
    /\ arrived = [f \in Facades |-> <<>>]
    /\ by = <<>>
    /\ forwarded = [f \in Facades |-> 0]
    /\ invoked = [f \in Facades |-> 0]
    /\ last = [f |-> "-", op |-> "none", ret |-> "none", rep |-> FALSE]

\* The facades in F are constructed, those in L with either value of
\* start_listening and the others with False; those in U call update();
\* those in L are polled and torn down, their workers run and can be killed.
Operations(F, L, U) ==
    \/ \E f \in F : \E s \in (IF f \in L THEN BOOLEAN ELSE {FALSE}) : New(f, s)
    \/ \E f \in U : Update(f)
    \/ \E f \in L : ShouldReload(f)
    \/ \E f \in L : Cleanup(f)
    \/ \E f \in L : \E i \in DOMAIN procs[f] : Worker(f, i)
    \/ \E f \in L : \E i \in DOMAIN procs[f] : Kill(f, i)

\* One listening facade, the other facades publishing, and a server that
\* goes and comes back.
Next ==
    \/ Operations(Facades, Subscriber, Facades \ Subscriber)
    \/ DbDown
    \/ DbUp

Spec == Init /\ [][Next]_vars

\* The worker processes are scheduled by the operating system, and the caller
\* keeps polling.
Fairness ==
    \A f \in Subscriber :
        /\ \A i \in 1..MaxProcs : WF_vars(i \in DOMAIN procs[f] /\ Worker(f, i))
        /\ WF_vars(ShouldReload(f))

FairSpec == Spec /\ Fairness

\* Two facades that may listen, one of which also publishes.
NextPair == Operations(Listeners, Listeners, Publishers)

PairSpec == Init /\ [][NextPair]_vars

\* One facade that listens, publishes and is given update handlers, and a
\* server that goes and comes back.
NextSolo ==
    \/ Operations(Solo, Solo, Solo)
    \/ \E f \in Solo : \E h \in Handlers : SetUpdateCallback(f, h)
    \/ DbDown
    \/ DbUp

SoloSpec == Init /\ [][NextSolo]_vars

\* Two facades, each constructed on a channel name of its own choosing (or
\* none), both publishing, one of them listening.
ChannelNames == {Unnamed, <<97>>, <<65>>, <<98>>}

Announcers == {"A", "B"}

NextChannels ==
    \/ \E f \in Announcers : \E c \in ChannelNames :
          \E s \in (IF f \in Subscriber THEN {TRUE} ELSE {FALSE}) : Construct(f, c, s)
    \/ \E f \in Announcers : Update(f)
    \/ \E f \in Subscriber : ShouldReload(f)
    \/ \E f \in Subscriber : \E i \in DOMAIN procs[f] : Worker(f, i)

ChannelSpec == Init /\ [][NextChannels]_vars

\* ------------------------------------------------------------- properties
\* The worker bound to the facade's read endpoint is running.
Alive(f) ==
    /\ facade[f].parent_conn /= None
    /\ Running(procs[f][facade[f].parent_conn])

\* Messages waiting on the facade's read endpoint.
Unread(f) ==
    IF facade[f].parent_conn = None THEN <<>>
    ELSE pipes[f][facade[f].parent_conn].buf

\* The facade's worker is subscribed and nothing is on its way to the facade.
Quiescent(f) ==
    /\ Alive(f)
    /\ Listening(procs[f][facade[f].parent_conn])
    /\ procs[f][facade[f].parent_conn].sock = <<>>
    /\ procs[f][facade[f].parent_conn].notifies = <<>>
    /\ Unread(f) = <<>>

\* The facade's worker has ended and its pipe holds nothing.
WorkerLost(f) ==
    /\ facade[f].parent_conn /= None
    /\ procs[f][facade[f].parent_conn].pc = "Terminated"
    /\ Unread(f) = <<>>

\* The facade holds no endpoint and no process.
OwnsNothing(f) ==
    /\ facade[f].parent_conn = None
    /\ facade[f].child_conn = None
    /\ facade[f].subscription_process = None

Polled(f, ret) == last.f = f /\ last.op = "should_reload" /\ last.ret = ret

\* C1: every payload the server pushes to a facade's subscribed worker is
\* returned as a true by a later should_reload() of that facade, as long as
\* the worker stays alive and the facade keeps its read endpoint.
C1_Delivery ==
    \A f \in Subscriber : \A n \in 1..MaxUpdates :
        (Len(arrived[f]) >= n) ~> (Len(consumed[f]) >= n \/ ~Alive(f))

\* C1 witness: a pushed payload has been returned by should_reload() while
\* the worker is alive.
C1_Witness ==
    \E f \in Facades :
        /\ Polled(f, "true") /\ Alive(f)
        /\ Len(arrived[f]) >= 1 /\ Len(consumed[f]) = Len(arrived[f])

\* C2 (as claimed): a facade that has published itself and whose worker is
\* subscribed with nothing left in flight has had a true from should_reload()
\* or still has the message waiting; refuted by an update() issued before the
\* worker executed LISTEN.
C2_OwnPublishDelivered ==
    \A f \in Facades :
        ((\E n \in DOMAIN by : by[n] = f) /\ Quiescent(f))
            => consumed[f] /= <<>>

\* C3: a should_reload() that returns true takes exactly the first waiting
\* message off the read endpoint and one that returns false takes none; a
\* facade never gets more trues than payloads reached its workers, which are
\* never more than the publishes.
C3_ConsumeOne ==
    /\ [][\A f \in Facades : ShouldReload(f) =>
            /\ last'.ret = "true" =>
                  /\ Unread(f) /= <<>>
                  /\ Unread(f)' = Tail(Unread(f))
                  /\ consumed'[f] = Append(consumed[f], Head(Unread(f)))
            /\ last'.ret = "false" =>
                  /\ Len(Unread(f)') = Len(Unread(f))
                  /\ consumed'[f] = consumed[f]]_vars
    /\ [](\A f \in Facades :
            /\ Len(consumed[f]) + Len(Unread(f)) <= Len(arrived[f])
            /\ Len(arrived[f]) <= seq)

\* C3 witness: two subscribed facades, one update() by A, B has had its true
\* and a further should_reload() of B has returned false.
C3_Witness ==
    /\ Alive("A") /\ Alive("B")
    /\ by = <<"A">>
    /\ consumed["B"] = <<1>>
    /\ Polled("B", "false") /\ last.rep

\* C4: as long as nothing has been published, every should_reload() on a
\* facade that has not been torn down returns false.
C4_NoSpuriousWake ==
    \A f \in Facades :
        (seq = 0 /\ last.f = f /\ last.op = "should_reload"
               /\ facade[f].parent_conn /= None)
            => (last.ret = "false" /\ consumed[f] = <<>>)

\* C4 witness: nothing published, the worker is waiting for pushes and the
\* facade has been polled twice in a row.
C4_Witness ==
    \E f \in Facades :
        /\ seq = 0 /\ Polled(f, "false") /\ last.rep
        /\ Alive(f) /\ procs[f][facade[f].parent_conn].pc = "Waiting"

\* C5 (as claimed): a should_reload() on a facade whose worker has been
\* killed recreates the pair: it leaves the facade with one more worker, which
\* is running.
C5_SelfHealing ==
    [][\A f \in Facades : (ShouldReload(f) /\ WorkerLost(f)) =>
            /\ Len(procs'[f]) = Len(procs[f]) + 1
            /\ Alive(f)']_vars

C7_TeardownComplete ==
    \A f \in Facades :
        (last.f = f /\ last.op = "cleanup") =>
            /\ \A i \in DOMAIN procs[f] : ~Running(procs[f][i])
            /\ \A i \in DOMAIN pipes[f] :
                   ~pipes[f][i].parentOpen /\ ~pipes[f][i].childOpen
            /\ OwnsNothing(f)

\* C8: a teardown never raises and leaves the facade owning nothing; a
\* teardown of a facade that owns nothing changes nothing of the facade, its
\* pipes or its processes.
C8_IdempotentTeardown ==
    /\ [](\A f \in Facades :
            (last.f = f /\ last.op = "cleanup") =>
                (last.ret = "ok" /\ OwnsNothing(f)))
    /\ [][\A f \in Facades : (Cleanup(f) /\ OwnsNothing(f)) =>
            /\ last'.ret = "ok"
            /\ facade'[f] = facade[f]
            /\ pipes'[f] = pipes[f]
            /\ procs'[f] = procs[f]]_vars

\* C8 witness: two teardowns in a row of a facade that had a running worker.
C8_Witness ==
    \E f \in Facades :
        /\ last.f = f /\ last.op = "cleanup" /\ last.rep
        /\ OwnsNothing(f)
        /\ procs[f] /= <<>>

\* C9 (as claimed): a should_reload() on a facade whose worker has ended
\* returns false and leaves the facade with a fresh pair whose worker has been
\* started with the delay 10; the constructor's worker has the delay 2.
C9_RecoveryOnLoss ==
    /\ [][\A f \in Facades : (ShouldReload(f) /\ WorkerLost(f)) =>
            /\ last'.ret = "false"
            /\ facade'[f].parent_conn = Len(pipes[f]) + 1
            /\ facade'[f].child_conn = Len(pipes[f]) + 1
            /\ procs'[f][Len(procs[f]) + 1].pc = "Idle"
            /\ procs'[f][Len(procs[f]) + 1].delay = RECREATE_DELAY]_vars
    /\ [](\A f \in Facades :
            procs[f] /= <<>> => procs[f][1].delay = DEFAULT_DELAY)

\* The publishes so far were issued by different facades.
DistinctPublishers == \A m, n \in DOMAIN by : m /= n => by[m] /= by[n]

\* C10: a facade gets no more trues than there were publishes, and when
\* distinct facades have published n times in all, each publish reaching the
\* facade's subscribed worker, the facade gets its n-th true, as long as its
\* worker stays alive.
C10_Independence ==
    /\ [](\A f \in Facades : Len(consumed[f]) <= seq)
    /\ \A f \in Subscriber : \A n \in 1..MaxUpdates :
          (seq = n /\ DistinctPublishers /\ Len(arrived[f]) = n)
              ~> (Len(consumed[f]) = n \/ ~Alive(f) \/ seq > n)

\* C10 witness: two publishes by two facades, both returned as trues to a
\* third facade.
C10_Witness ==
    \E f \in Facades :
        /\ seq = 2 /\ DistinctPublishers
        /\ \A n \in DOMAIN by : by[n] /= f
        /\ Len(consumed[f]) = 2 /\ Alive(f)

\* C11: update() changes nothing the calling facade owns: its attributes
\* (endpoints, process handles, callback), its pipes and what waits in them,
\* the position of its workers, the calls of its callback.  With the server
\* up it issues one NOTIFY; with the server gone it raises, once, and nothing
\* is published or pushed.
C11_UpdateFrame ==
    [][\A f \in Facades : Update(f) =>
          /\ facade'[f] = facade[f]
          /\ pipes'[f] = pipes[f]
          /\ invoked' = invoked
          /\ consumed' = consumed
          /\ \A i \in DOMAIN procs[f] : procs'[f][i].pc = procs[f][i].pc
          /\ dbUp => (last'.ret = "ok" /\ seq' = seq + 1)
          /\ ~dbUp => /\ last'.ret = "raise"
                      /\ seq' = seq /\ by' = by
                      /\ procs' = procs /\ arrived' = arrived]_vars

\* C11 witness: an update() has raised on a facade that has a running worker,
\* a message waiting on its read endpoint and a callback.
C11_Witness ==
    \E f \in Facades :
        /\ last.f = f /\ last.op = "update" /\ last.ret = "raise"
        /\ Alive(f) /\ Unread(f) /= <<>>
        /\ facade[f].update_callback /= None

C13_Constructed ==
    /\ [](\A f \in Facades :
            (last.f = f /\ last.op = "new") =>
                /\ last.ret = "ok"
                /\ facade[f].parent_conn /= None
                /\ facade[f].child_conn = facade[f].parent_conn
                /\ pipes[f][facade[f].parent_conn].parentOpen
                /\ pipes[f][facade[f].child_conn].childOpen
                /\ facade[f].subscription_process = facade[f].parent_conn)
    /\ [][\A f \in Facades : \A s \in BOOLEAN : New(f, s) =>
            procs'[f][Len(procs'[f])].pc = IF s THEN "Idle" ELSE "unstarted"]_vars
    /\ [](\A f \in Facades : \A i \in DOMAIN procs[f] :
            procs[f][i].pc = "unstarted" => pipes[f][i].buf = <<>>)

\* The part of C13 that does not name the handle.
C13_Rest ==
    /\ [](\A f \in Facades :
            (last.f = f /\ last.op = "new") =>
                /\ last.ret = "ok"
                /\ facade[f].parent_conn /= None
                /\ facade[f].child_conn = facade[f].parent_conn
                /\ pipes[f][facade[f].parent_conn].parentOpen
                /\ pipes[f][facade[f].child_conn].childOpen
                /\ facade[f].subscribed_process = facade[f].parent_conn)
    /\ [][\A f \in Facades : \A s \in BOOLEAN : New(f, s) =>
            procs'[f][Len(procs'[f])].pc = IF s THEN "Idle" ELSE "unstarted"]_vars
    /\ [](\A f \in Facades : \A i \in DOMAIN procs[f] :
            procs[f][i].pc = "unstarted" => pipes[f][i].buf = <<>>)

IsPrefix(a, b) == Len(a) <= Len(b) /\ SubSeq(b, 1, Len(a)) = a

\* C14: what should_reload() has returned, followed by what waits on the read
\* endpoint, is an initial part of what arrived at the worker, in the order
\* of arrival; conn.poll() takes everything the socket holds, and the worker
\* does not go back to select() with a notification left in conn.notifies.
C14_Order ==
    /\ [](\A f \in Facades : IsPrefix(consumed[f] \o Unread(f), arrived[f]))
    /\ [](\A f \in Facades : \A i \in DOMAIN procs[f] :
            procs[f][i].pc \in {"Subscribed", "Waiting"}
                => procs[f][i].notifies = <<>>)
    /\ [][\A f \in Facades : \A i \in DOMAIN procs[f] :
            (WorkerPoll(f, i) /\ procs[f][i].conn = "open") =>
                /\ procs'[f][i].notifies = procs[f][i].notifies \o procs[f][i].sock
                /\ procs'[f][i].sock = <<>>]_vars

\* C14 witness: two payloads arrived at the worker and both have been
\* returned by should_reload().
C14_Witness ==
    \E f \in Facades :
        /\ Len(arrived[f]) = 2
        /\ consumed[f] = arrived[f]
        /\ Polled(f, "true")

\* C15: with the database unreachable connect() raises and the worker ends
\* in Connecting with nothing sent on the pipe; and while the facade keeps
\* polling, a worker found dead with nothing left to read is followed by a
\* recreated worker, unless the facade has given up its pipe.
C15_DeathRecreated ==
    /\ [][\A f \in Facades : \A i \in DOMAIN procs[f] :
            (WorkerConnect(f, i) /\ ~dbUp) =>
                /\ procs'[f][i].pc = "Terminated"
                /\ pipes' = pipes]_vars
    /\ \A f \in Subscriber : \A n \in 1..(MaxProcs - 1) :
            (WorkerLost(f) /\ Len(procs[f]) = n)
                ~> (Len(procs[f]) > n \/ facade[f].parent_conn = None)

\* The part of C15 that is about the worker alone.
C15_ConnectCrash ==
    [][\A f \in Facades : \A i \in DOMAIN procs[f] :
            (WorkerConnect(f, i) /\ ~dbUp) =>
                /\ procs'[f][i].pc = "Terminated"
                /\ pipes' = pipes /\ arrived' = arrived]_vars

\* C16: should_reload() can be taken in every state of a constructed facade,
\* whatever its worker is doing and whether or not a message is pending, and
\* it is one step of the facade that moves no worker and leaves the
\* database as it is.
C16_NeverBlocks ==
    /\ [](\A f \in Solo : constructed[f] => ENABLED ShouldReload(f))
    /\ [][\A f \in Solo : ShouldReload(f) =>
            /\ \A i \in DOMAIN procs[f] : procs'[f][i] = procs[f][i]
            /\ dbUp' = dbUp /\ seq' = seq]_vars

\* C16 witness: should_reload() has returned False while the worker was still
\* in its startup delay and the database was down.
C16_Witness ==
    \E f \in Solo :
        /\ Polled(f, "false")
        /\ facade[f].parent_conn /= None
        /\ procs[f][facade[f].parent_conn].pc = "Idle"
        /\ ~dbUp

\* The moves of a worker between the places of _casbin_channel_subscription.
WorkerMoves ==
    {<<"Idle", "Connecting">>, <<"Connecting", "Subscribed">>,
     <<"Subscribed", "Waiting">>, <<"Waiting", "Subscribed">>,
     <<"Waiting", "Draining">>, <<"Draining", "Subscribed">>,
     <<"Idle", "Terminated">>, <<"Connecting", "Terminated">>,
     <<"Subscribed", "Terminated">>, <<"Waiting", "Terminated">>,
     <<"Draining", "Terminated">>}

SubscribedStates == {"Subscribed", "Waiting", "Draining"}

\* The causes the specification gives for the end of a subscribed worker:
\* its database connection is no longer open, or it is terminated by force
\* (a signal, or the terminate() of the owning facade's cleanup).
EndedFromOutside(f, i) ==
    \/ procs[f][i].conn /= "open"
    \/ procs'[f][i].exitcode = "signalled"

MoveAllowed(f, i, cause) ==
    LET a == procs[f][i].pc
        b == procs'[f][i].pc
    IN  /\ a /= b => <<a, b>> \in WorkerMoves
        /\ (a = "Idle" /\ b = "Connecting") => WorkerSleep(f, i)
        /\ (a \in SubscribedStates /\ b = "Terminated") => cause

SubscribedOnAutocommit ==
    \A f \in Facades : \A i \in DOMAIN procs[f] :
        procs[f][i].pc \in SubscribedStates => procs[f][i].autocommit

\* C17: a worker leaves Idle only by the end of its sleep, is subscribed only
\* on an autocommit connection, goes round Subscribed, Waiting and Draining,
\* and ends from there only when its connection is no longer open or it is
\* terminated by force.
C17_WorkerMachine ==
    /\ [][\A f \in Facades : \A i \in DOMAIN procs[f] :
            MoveAllowed(f, i, EndedFromOutside(f, i))]_vars
    /\ []SubscribedOnAutocommit

\* A send() that raises because the facade closed both ends of the pipe.
EndedFromOutsideOrSend(f, i) ==
    \/ EndedFromOutside(f, i)
    \/ /\ procs[f][i].pc = "Draining"
       /\ procs[f][i].notifies /= <<>>
       /\ ~pipes[f][i].parentOpen

\* C17 with that cause added.
C17_Rest ==
    /\ [][\A f \in Facades : \A i \in DOMAIN procs[f] :
            MoveAllowed(f, i, EndedFromOutsideOrSend(f, i))]_vars
    /\ []SubscribedOnAutocommit

Range(q) == {q[k] : k \in DOMAIN q}

\* A worker of f has issued LISTEN on a connection that is still open.
SubscribedNow(f) ==
    \E i \in DOMAIN procs[f] :
        procs[f][i].pc \in SubscribedStates /\ procs[f][i].conn = "open"

C19_NoDiscard ==
    [][\A f \in Facades : ShouldReload(f) =>
          /\ Unread(f) /= <<>> =>
                /\ last'.ret = "true"
                /\ consumed'[f] = Append(consumed[f], Head(Unread(f)))
                /\ Unread(f)' = Tail(Unread(f))
                /\ facade'[f] = facade[f]
                /\ Len(procs'[f]) = Len(procs[f])
          /\ (Len(procs'[f]) > Len(procs[f]) \/ facade'[f] /= facade[f])
                => Unread(f) = <<>>]_vars

\* C19 witness: the worker is dead, should_reload() has just returned one of
\* the messages it had forwarded and another is still in the pipe.
C19_Witness ==
    \E f \in Facades :
        /\ Polled(f, "true")
        /\ facade[f].parent_conn /= None
        /\ procs[f][facade[f].parent_conn].pc = "Terminated"
        /\ Len(consumed[f]) = 1
        /\ Len(Unread(f)) = 1

\* C20: a facade keeps the channel name it was constructed with, or the
\* default when none was given, and hands that name to its worker; every
\* payload that arrives at its worker or is returned by its should_reload()
\* was published by a facade whose name denotes the same channel.
C20_ChannelIsolation ==
    /\ [](\A f \in Facades : \A k \in DOMAIN arrived[f] :
            Channel(facade[by[arrived[f][k]]].channel_name)
                = Channel(facade[f].channel_name))
    /\ [](\A f \in Facades : Range(consumed[f]) \subseteq Range(arrived[f]))
    /\ [](\A f \in Facades : \A i \in DOMAIN procs[f] :
            procs[f][i].channel_name = facade[f].channel_name)
    /\ [][\A f \in Facades : \A c \in ChannelNames : \A s \in BOOLEAN :
            Construct(f, c, s) =>
                facade'[f].channel_name =
                    IF c = Unnamed THEN POSTGRESQL_CHANNEL_NAME ELSE c]_vars

\* C20 witness: the subscriber took its own publish, so it was listening;
\* then a facade on another channel published, and nothing arrived: the
\* subscriber's should_reload() has returned False.
C20_Witness ==
    \E f \in Subscriber : \E g \in Announcers :
        /\ by = <<f, g>>
        /\ Channel(facade[g].channel_name) /= Channel(facade[f].channel_name)
        /\ \E i \in DOMAIN procs[f] : Listening(procs[f][i])
        /\ arrived[f] = <<1>>
        /\ consumed[f] = <<1>>
        /\ Polled(f, "false")

====
